---- MODULE Spec2Model ----
(***************************************************************************)
(* Model of the multilingual sentiment analyzer:                           *)
(*   - MultilingualSentimentAnalyzer (src/src/models/sentiment_model.py):  *)
(*     load_model, analyze, _analyze_single, analyze_batch;                *)
(*   - TextProcessor.clean_text (src/src/preprocessing/text_processor.py). *)
(* Texts handed to the cleaner are sequences of Unicode code points.       *)
(* Scores are fixed-point numbers in units of 1/Scale.                     *)
(***************************************************************************)
EXTENDS Integers, Sequences, FiniteSets, TLC

VARIABLES
    device,        \* self.device: "cpu" or "cuda"
    tokenizer,     \* self.tokenizer: "None" or "tokenizer"
    model,         \* self.model: None or a model object (a record)
    loadCalled,    \* history: load_model has been called at least once
    loadReturned,  \* history: some load_model call has returned normally
    outcome,       \* the value or exception of the call that has just ended,
                   \* NoCall once the caller has taken it
    text,          \* clean_text: the input text
    opts,          \* clean_text: the six cleaning options
    cleaned,       \* clean_text: the returned text
    pc,            \* clean_text: "start" before the call, "done" after it,
                   \* "idle" while the analyzer is the one being driven
    guess,         \* language detection: NoGuess, then the call and its result
    analyzerGlobal,\* api/main.py: the global `analyzer`, "None" or "analyzer"
    response,      \* api/main.py: the response to the request just handled
    cli            \* run.py: the state of the batch command

vars == <<device, tokenizer, model, loadCalled, loadReturned, outcome,
          text, opts, cleaned, pc, guess, analyzerGlobal, response, cli>>

analyzerVars == <<device, tokenizer, model, loadCalled, loadReturned, outcome>>
cleanerVars == <<text, opts, cleaned, pc>>
frontVars == <<guess, analyzerGlobal, response, cli>>

(***************************************************************************)
(* Bounds of the model                                                     *)
(***************************************************************************)
MaxTexts == 3       \* longest list of texts handed to analyze / analyze_batch
MaxBatch == 3       \* largest batch_size tried (smallest is -1)
MaxFrags == 3       \* number of fragments a cleaner input is made of
MaxLangLen == 5     \* longest text handed to the language detection
MaxLines == 2       \* most lines in the file handed to the batch command

Min(a, b) == IF a <= b THEN a ELSE b

\* the texts handed to the analyzer are opaque to it
Texts == {"I love this!", "I hate this!"}

TextLists == UNION {[1..n -> Texts] : n \in 0..MaxTexts}

BatchSizes == (0 - 1)..MaxBatch

(***************************************************************************)
(* The external classifier                                                 *)
(***************************************************************************)
None == [kind |-> "None"]

labels == <<"negative", "neutral", "positive">>

\* logits in tenths, as the mocks of the tests give them
LogitRows == {<<1, 3, 6>>, <<7, 2, 1>>, <<3, 3, 3>>, <<6, 6, 2>>}

\* the rows the mocked model of the tests returns whatever the input is
MockLogits == << <<1, 3, 6>>, <<7, 2, 1>> >>

\* what AutoModelForSequenceClassification.from_pretrained can hand back:
\* a classifier giving each text its own logits, or the mock of the tests
FreshModels ==
    {[kind |-> "pretrained", logits |-> f, moved |-> FALSE, evalMode |-> FALSE] :
        f \in [Texts -> LogitRows]}
    \cup {[kind |-> "mock", logits |-> [t \in Texts |-> MockLogits[1]],
           moved |-> FALSE, evalMode |-> FALSE]}

\* fixed-point unit of the scores
Scale == 1000000

\* 100 * exp(l / 10) for the logits l = 0 .. 7 tenths
ExpTable == <<100, 111, 122, 135, 149, 165, 182, 201>>

Exp(l) == ExpTable[l + 1]

RECURSIVE SumSeq(_)
SumSeq(s) == IF s = <<>> THEN 0 ELSE Head(s) + SumSeq(Tail(s))

\* round(Scale * a / b) to the nearest unit
RoundDiv(a, b) == (2 * a * Scale + b) \div (2 * b)

\* softmax over the wrong axis (dim=0): each column of the batch sums to one
SoftmaxDim0(rows) ==
    [i \in 1..Len(rows) |->
        [c \in 1..Len(rows[i]) |->
            RoundDiv(Exp(rows[i][c]),
                     SumSeq([r \in 1..Len(rows) |-> Exp(rows[r][c])]))]]

\* torch.nn.functional.softmax(logits, dim=-1): each row is normalised by
\* the sum of its exponentials, each score rounded to the nearest unit
Softmax(rows) ==
    [i \in 1..Len(rows) |->
        [c \in 1..Len(rows[i]) |->
            RoundDiv(Exp(rows[i][c]),
                     SumSeq([d \in 1..Len(rows[i]) |-> Exp(rows[i][d])]))]]

\* self.model(**inputs).logits for a batch of texts
Forward(mdl, batch) ==
    IF mdl.kind = "mock" THEN MockLogits
    ELSE [j \in 1..Len(batch) |-> mdl.logits[batch[j]]]

\* np.max
NpMax(row) == CHOOSE m \in {row[i] : i \in 1..Len(row)} :
                 \A i \in 1..Len(row) : row[i] <= m

NpArgMin(row) == CHOOSE i \in 1..Len(row) :
                    /\ \A j \in 1..Len(row) : row[i] <= row[j]
                    /\ \A j \in 1..(i - 1) : row[j] > row[i]

\* np.argmax: the first index that holds the maximum (1-based here)
NpArgMax(row) == CHOOSE i \in 1..Len(row) :
                    /\ \A j \in 1..Len(row) : row[j] <= row[i]
                    /\ \A j \in 1..(i - 1) : row[j] < row[i]

\* zip(a, b) as the ordered items of the dict built from it
Zip(a, b) == [i \in 1..Min(Len(a), Len(b)) |-> <<a[i], b[i]>>]

(***************************************************************************)
(* Outcomes of a call                                                      *)
(***************************************************************************)
ModelNotLoaded == <<"Model not loaded", ". Call load_model() first.">>
NotCallable == <<"'NoneType' object is not callable">>
DeviceMismatch == <<"Expected all tensors to be on the same device">>
ZeroStep == <<"range() arg 3 must not be zero">>
OutOfBounds == <<"index out of bounds">>

Returned(value, tok, fwd) ==
    [status |-> "ok", exc |-> "", msg |-> <<>>, value |-> value,
     tokCalls |-> tok, fwdCalls |-> fwd]

Raised(exc, msg, tok, fwd) ==
    [status |-> "raise", exc |-> exc, msg |-> msg, value |-> <<>>,
     tokCalls |-> tok, fwdCalls |-> fwd]

\* the forward pass fails when inputs are on self.device and the model is not
ForwardFails(dev, mdl) == dev = "cuda" /\ ~mdl.moved

(***************************************************************************)
(* TextProcessor: characters are Unicode code points                       *)
(***************************************************************************)
InRange(c, lo, hi) == lo <= c /\ c <= hi

\* the character alternatives of url_pattern:
\* [a-zA-Z] | [0-9] | [$-_@.&+] | [!*\\(\\),]   (%XX starts with a [$-_] char)
IsUrlChar(c) ==
    \/ InRange(c, 97, 122) \/ InRange(c, 65, 90)
    \/ InRange(c, 48, 57)
    \/ InRange(c, 36, 95) \/ c \in {64, 46, 38, 43}
    \/ c \in {33, 42, 92, 40, 41, 44}

\* \w of a str pattern: alphanumeric or underscore
IsWord(c) ==
    \/ InRange(c, 48, 57) \/ InRange(c, 65, 90) \/ c = 95 \/ InRange(c, 97, 122)
    \/ (InRange(c, \hC0, \h24F) /\ c \notin {\hD7, \hF7})
    \/ InRange(c, \hFB00, \hFB06)
    \/ InRange(c, \h3041, \h3096) \/ InRange(c, \h30A1, \h30FA)
    \/ InRange(c, \h4E00, \h9FFF) \/ InRange(c, \hAC00, \hD7A3)

\* the characters str.split() and str.strip() treat as whitespace
IsSpace(c) ==
    \/ InRange(c, 9, 13) \/ InRange(c, 28, 32) \/ c \in {\h85, \hA0, \h1680}
    \/ InRange(c, \h2000, \h200A)
    \/ c \in {\h2028, \h2029, \h202F, \h205F, \h3000}

\* emoji_pattern without its first range, the emoticons
IsEmojiNoEmoticons(c) ==
    \/ InRange(c, \h1F300, \h1F5FF)
    \/ InRange(c, \h1F680, \h1F6FF)
    \/ InRange(c, \h1F1E0, \h1F1FF)
    \/ InRange(c, \h2702, \h27B0)
    \/ InRange(c, \h24C2, \h1F251)

\* the ranges of emoji_pattern
IsEmoji(c) ==
    \/ InRange(c, \h1F600, \h1F64F)
    \/ InRange(c, \h1F300, \h1F5FF)
    \/ InRange(c, \h1F680, \h1F6FF)
    \/ InRange(c, \h1F1E0, \h1F1FF)
    \/ InRange(c, \h2702, \h27B0)
    \/ InRange(c, \h24C2, \h1F251)

\* unicodedata.normalize('NFKC', c) of one character that is neither a
\* combining mark nor a conjoining jamo
NFKC(c) ==
    IF c = \hFB01 THEN <<102, 105>>                    \* ligature fi -> f i
    ELSE IF c \in {\hA0, \h3000} THEN <<32>>           \* no-break, ideographic space
    ELSE IF InRange(c, \hFF01, \hFF5E) THEN <<c - \hFEE0>>   \* fullwidth forms
    ELSE <<c>>

\* str.lower() of one character
Lower(c) ==
    IF InRange(c, 65, 90) THEN <<c + 32>>
    ELSE IF c = \h130 THEN <<105, \h307>>              \* I with dot above
    ELSE IF InRange(c, \hFF21, \hFF3A) THEN <<c + 32>>
    ELSE <<c>>

RECURSIVE Flatten(_)
Flatten(ss) == IF ss = <<>> THEN <<>> ELSE Head(ss) \o Flatten(Tail(ss))

\* the last index of the longest run of TRUE entries of flags that starts
\* at k (k - 1 when flags[k] is FALSE)
RunEnd(flags, k) ==
    CHOOSE e \in (k - 1)..Len(flags) :
        /\ \A j \in k..e : flags[j]
        /\ e = Len(flags) \/ ~flags[e + 1]

StartsWith(s, i, lit) ==
    /\ i + Len(lit) - 1 <= Len(s)
    /\ \A j \in 1..Len(lit) : s[i + j - 1] = lit[j]

Http == <<104, 116, 116, 112>>
SchemeSep == <<58, 47, 47>>

\* url_pattern matched at index i: the index of the last character of the
\* match, 0 when there is no match at i
UrlMatchEnd(s, i) ==
    IF ~StartsWith(s, i, Http) THEN 0
    ELSE LET k == IF StartsWith(s, i + 4, <<115>> \o SchemeSep) THEN i + 8
                  ELSE IF StartsWith(s, i + 4, SchemeSep) THEN i + 7
                  ELSE 0
         IN  IF k = 0 THEN 0
             ELSE LET e == RunEnd([j \in 1..Len(s) |-> IsUrlChar(s[j])], k)
                  IN  IF e >= k THEN e ELSE 0

\* mention_pattern / hashtag_pattern (sigil @ = 64, # = 35) matched at i
SigilMatchEnd(s, i, sigil) ==
    IF i < Len(s) /\ s[i] = sigil /\ IsWord(s[i + 1])
    THEN RunEnd([j \in 1..Len(s) |-> IsWord(s[j])], i + 1)
    ELSE 0

RECURSIVE UrlScan(_, _)
UrlScan(s, i) ==
    IF i > Len(s) THEN <<>>
    ELSE LET e == UrlMatchEnd(s, i)
         IN  IF e > 0 THEN UrlScan(s, e + 1)
             ELSE <<s[i]>> \o UrlScan(s, i + 1)

\* self.url_pattern.sub('', text)
UrlSub(s) == UrlScan(s, 1)

\* keep: the match is replaced by its word (group 1), else by nothing
RECURSIVE SigilScan(_, _, _, _)
SigilScan(s, i, sigil, keep) ==
    IF i > Len(s) THEN <<>>
    ELSE LET e == SigilMatchEnd(s, i, sigil)
         IN  IF e > 0
             THEN (IF keep THEN SubSeq(s, i + 1, e) ELSE <<>>)
                  \o SigilScan(s, e + 1, sigil, keep)
             ELSE <<s[i]>> \o SigilScan(s, i + 1, sigil, keep)

\* mentions replaced by the placeholder "@user"
RECURSIVE PlaceholderScan(_, _)
PlaceholderScan(s, i) ==
    IF i > Len(s) THEN <<>>
    ELSE LET e == SigilMatchEnd(s, i, 64)
         IN  IF e > 0
             THEN <<64, 117, 115, 101, 114>> \o PlaceholderScan(s, e + 1)
             ELSE <<s[i]>> \o PlaceholderScan(s, i + 1)

MentionPlaceholder(s) == PlaceholderScan(s, 1)

\* self.mention_pattern.sub('', text)
MentionSub(s) == SigilScan(s, 1, 64, FALSE)

\* only the '#' of each hashtag is deleted
HashtagHashOnly(s) == SigilScan(s, 1, 35, TRUE)

\* self.hashtag_pattern.sub('', text)
HashtagSub(s) == SigilScan(s, 1, 35, FALSE)

\* re.sub(r'#(\w+)', r'\1', text)
HashtagKeepWord(s) == SigilScan(s, 1, 35, TRUE)

\* self.emoji_pattern.sub('', text)
EmojiSub(s) == SelectSeq(s, LAMBDA c : ~IsEmoji(c))

\* text.lower()
LowerText(s) == Flatten([i \in 1..Len(s) |-> Lower(s[i])])

\* unicodedata.normalize('NFKC', text)
Normalize(s) == Flatten([i \in 1..Len(s) |-> NFKC(s[i])])

\* text.split(): the maximal runs of non-whitespace characters
RECURSIVE Split(_, _)
Split(s, i) ==
    IF i > Len(s) THEN <<>>
    ELSE IF IsSpace(s[i]) THEN Split(s, i + 1)
    ELSE LET e == RunEnd([j \in 1..Len(s) |-> ~IsSpace(s[j])], i)
         IN  <<SubSeq(s, i, e)>> \o Split(s, e + 1)

\* ' '.join(words)
RECURSIVE Join(_)
Join(words) ==
    IF words = <<>> THEN <<>>
    ELSE IF Len(words) = 1 THEN words[1]
    ELSE words[1] \o <<32>> \o Join(Tail(words))

\* text.strip()
Strip(s) ==
    IF \A i \in 1..Len(s) : IsSpace(s[i]) THEN <<>>
    ELSE LET a == CHOOSE i \in 1..Len(s) :
                     ~IsSpace(s[i]) /\ \A j \in 1..(i - 1) : IsSpace(s[j])
             b == CHOOSE i \in 1..Len(s) :
                     ~IsSpace(s[i]) /\ \A j \in (i + 1)..Len(s) : IsSpace(s[j])
         IN  SubSeq(s, a, b)

\* only text.strip(), without ' '.join(text.split())
StripOnly(s) == Strip(s)

\* ' '.join(text.split()) followed by .strip()
CollapseWhitespace(s) == Strip(Join(Split(s, 1)))

\* clean_text(text, remove_urls, remove_mentions, remove_hashtags,
\*            remove_emojis, lowercase, normalize_unicode)
clean_text(t, o) ==
    IF t = <<>> THEN <<>>
    ELSE LET t1 == IF o.normalize_unicode THEN Normalize(t) ELSE t
             t2 == IF o.remove_urls THEN UrlSub(t1) ELSE t1
             t3 == IF o.remove_mentions THEN MentionSub(t2) ELSE t2
             t4 == IF o.remove_hashtags THEN HashtagSub(t3) ELSE HashtagKeepWord(t3)
             t5 == IF o.remove_emojis THEN EmojiSub(t4) ELSE t4
             t6 == IF o.lowercase THEN LowerText(t5) ELSE t5
         IN  CollapseWhitespace(t6)

\* the option combinations
CleaningOptions ==
    [remove_urls : BOOLEAN, remove_mentions : BOOLEAN, remove_hashtags : BOOLEAN,
     remove_emojis : BOOLEAN, lowercase : BOOLEAN, normalize_unicode : BOOLEAN]

\* pieces the input texts are assembled from:
\* "http://", "x", "@", "#", " ", TAB, " " TAB, "!", U+1F60A, U+FB01 (fi),
\* U+0130
Fragments ==
    {Http \o SchemeSep, <<120>>, <<64>>, <<35>>, <<32>>, <<9>>, <<32, 9>>, <<33>>,
     <<\h1F60A>>, <<\hFB01>>, <<\h130>>}

CleanInputs == {Flatten(fs) : fs \in UNION {[1..n -> Fragments] : n \in 0..MaxFrags}}

\* letters of four scripts, an emoji and a space:
\* "a", U+3042 (hiragana a), U+4E2D (zhong), U+D55C (han), U+1F60A, " "
ScriptFragments == {<<97>>, <<\h3042>>, <<\h4E2D>>, <<\hD55C>>, <<\h1F60A>>, <<32>>}

ScriptInputs ==
    {Flatten(fs) : fs \in UNION {[1..n -> ScriptFragments] : n \in 0..MaxFrags}}

\* "  Check out https://t.co/abc @user #test " U+1F60A "!!!  "
Dirty ==
    <<32, 32, 67, 104, 101, 99, 107, 32, 111, 117, 116, 32, 104, 116,
       116, 112, 115, 58, 47, 47, 116, 46, 99, 111, 47, 97, 98, 99, 32,
       64, 117, 115, 101, 114, 32, 35, 116, 101, 115, 116, 32, 128522,
       33, 33, 33, 32, 32>>

\* "check out !!!"
CheckOut == <<99, 104, 101, 99, 107, 32, 111, 117, 116, 32, 33, 33, 33>>

(***************************************************************************)
(* TextProcessor: language detection                                       *)
(***************************************************************************)
\* [぀-ゟ゠-ヿ] only: the kana without the ideographs
IsKana(c) == InRange(c, \h3040, \h309F) \/ InRange(c, \h30A0, \h30FF)

\* [぀-ゟ゠-ヿ一-鿿]
IsJapaneseChar(c) ==
    InRange(c, \h3040, \h309F) \/ InRange(c, \h30A0, \h30FF) \/ InRange(c, \h4E00, \h9FFF)

\* [一-鿿]
IsChineseChar(c) == InRange(c, \h4E00, \h9FFF)

\* [가-힯]
IsKoreanChar(c) == InRange(c, \hAC00, \hD7AF)

\* [a-z] only
IsLatinLower(c) == InRange(c, 97, 122)

\* [a-zA-Z]
IsLatinChar(c) == InRange(c, 97, 122) \/ InRange(c, 65, 90)

\* the pair (language_code, confidence), the confidence as num / den
Guess(code, num, den) == [code |-> code, num |-> num, den |-> den]

Unknown == Guess("unknown", 0, 1)

\* _simple_language_detect(text); count > total * 0.3 is 10 * count > 3 * total
simple_language_detect(t) ==
    LET japanese_chars == Len(SelectSeq(t, IsJapaneseChar))
        chinese_chars == Len(SelectSeq(t, IsChineseChar))
        korean_chars == Len(SelectSeq(t, IsKoreanChar))
        latin_chars == Len(SelectSeq(t, IsLatinChar))
        total == japanese_chars + chinese_chars + korean_chars + latin_chars
    IN  IF total = 0 THEN Unknown
        ELSE IF 10 * japanese_chars > 3 * total
        THEN Guess("ja", japanese_chars, total)
        ELSE IF 10 * korean_chars > 3 * total
        THEN Guess("ko", korean_chars, total)
        ELSE IF 10 * chinese_chars > 3 * total /\ 10 * japanese_chars < total
        THEN Guess("zh", chinese_chars, total)
        ELSE Guess("en", latin_chars, total)

\* what `from langdetect import detect_langs` and detect_langs(text) can do:
\* the import fails, the call raises, or it returns a list of (lang, prob)
Detectors ==
    {[avail |-> "missing", results |-> <<>>],
     [avail |-> "raises", results |-> <<>>],
     [avail |-> "ok", results |-> <<>>],
     [avail |-> "ok", results |-> <<Guess("fr", 9, 10)>>],
     [avail |-> "ok", results |-> <<Guess("ja", 7, 10), Guess("zh", 3, 10)>>]}

\* detect_language that answers 'unknown' when the import fails too
detect_language_no_fallback(t, det) ==
    IF det.avail \in {"missing", "raises"} THEN Unknown
    ELSE IF det.results # <<>> THEN det.results[1]
    ELSE Unknown

\* detect_language(text) with the external detector det
detect_language(t, det) ==
    IF det.avail = "missing" THEN simple_language_detect(t)
    ELSE IF det.avail = "raises" THEN Unknown
    ELSE IF det.results # <<>> THEN det.results[1]
    ELSE Unknown

\* "a", "Z", U+3042 (hiragana a), U+4E2D (zhong), U+D55C (han), "!"
LangChars == {97, 90, \h3042, \h4E2D, \hD55C, 33}

LangInputs == UNION {[1..n -> LangChars] : n \in 0..MaxLangLen}

(***************************************************************************)
(* MultilingualSentimentAnalyzer                                           *)
(***************************************************************************)
\* the dict built from one row of scores
Shape(t, row) ==
    [text |-> t,
     sentiment |-> labels[NpArgMax(row)],
     confidence |-> NpMax(row),
     scores |-> Zip(labels, row)]

\* _analyze_single(text)
analyze_single(tok, mdl, dev, t) ==
    IF tok = "None" THEN Raised("TypeError", NotCallable, 0, 0)
    ELSE IF mdl = None THEN Raised("TypeError", NotCallable, 1, 0)
    ELSE IF ForwardFails(dev, mdl) THEN Raised("RuntimeError", DeviceMismatch, 1, 1)
    ELSE LET scores_np == Softmax(Forward(mdl, <<t>>))[1]
         IN  Returned(<<Shape(t, scores_np)>>, 1, 1)

\* [self._analyze_single(t) for t in text], stopping at the first exception
RECURSIVE AnalyzeEach(_, _, _, _, _)
AnalyzeEach(tok, mdl, dev, ts, acc) ==
    IF ts = <<>> THEN acc
    ELSE LET one == analyze_single(tok, mdl, dev, Head(ts))
         IN  IF one.status = "raise"
             THEN Raised(one.exc, one.msg, acc.tokCalls + one.tokCalls,
                         acc.fwdCalls + one.fwdCalls)
             ELSE AnalyzeEach(tok, mdl, dev, Tail(ts),
                              Returned(acc.value \o one.value,
                                       acc.tokCalls + one.tokCalls,
                                       acc.fwdCalls + one.fwdCalls))

\* analyze without its guard on self.model
analyze_unguarded(tok, mdl, dev, isStr, ts) ==
    IF isStr THEN analyze_single(tok, mdl, dev, ts[1])
    ELSE AnalyzeEach(tok, mdl, dev, ts, Returned(<<>>, 0, 0))

\* analyze(text): text is a str (isStr, ts = <<text>>) or a list ts
analyze(tok, mdl, dev, isStr, ts) ==
    IF mdl = None THEN Raised("RuntimeError", ModelNotLoaded, 0, 0)
    ELSE IF isStr THEN analyze_single(tok, mdl, dev, ts[1])
    ELSE AnalyzeEach(tok, mdl, dev, ts, Returned(<<>>, 0, 0))

\* a slice that loses the last text of each chunk
ChunkShort(ts, i, bs) ==
    SubSeq(ts, Min(i, Len(ts)) + 1, Min(i + bs - 1, Len(ts)))

\* texts[i:i + batch_size] for i >= 0, batch_size > 0
Chunk(ts, i, bs) ==
    SubSeq(ts, Min(i, Len(ts)) + 1, Min(i + bs, Len(ts)))

\* the row of the first text of the chunk, whatever j is
BatchRowFirst(scores_np, j) == scores_np[1]

\* scores_np[j]
BatchRow(scores_np, j) == scores_np[j]

\* the body of the loop `for i in range(0, len(texts), batch_size)`
RECURSIVE BatchLoop(_, _, _, _, _, _, _)
BatchLoop(tok, mdl, dev, ts, bs, i, acc) ==
    IF ~((bs > 0 /\ i < Len(ts)) \/ (bs < 0 /\ i > Len(ts))) THEN acc
    ELSE LET batch == Chunk(ts, i, bs) IN
         IF tok = "None"
         THEN Raised("TypeError", NotCallable, acc.tokCalls, acc.fwdCalls)
         ELSE IF mdl = None
         THEN Raised("TypeError", NotCallable, acc.tokCalls + 1, acc.fwdCalls)
         ELSE IF ForwardFails(dev, mdl)
         THEN Raised("RuntimeError", DeviceMismatch, acc.tokCalls + 1, acc.fwdCalls + 1)
         ELSE LET scores_np == Softmax(Forward(mdl, batch)) IN
              IF Len(scores_np) < Len(batch)
              THEN Raised("IndexError", OutOfBounds, acc.tokCalls + 1, acc.fwdCalls + 1)
              ELSE BatchLoop(tok, mdl, dev, ts, bs, i + bs,
                     Returned(acc.value \o
                                [j \in 1..Len(batch) |->
                                    [text |-> batch[j],
                                     sentiment |-> labels[NpArgMax(BatchRow(scores_np, j))],
                                     confidence |-> NpMax(BatchRow(scores_np, j)),
                                     scores |-> Zip(labels, BatchRow(scores_np, j))]],
                              acc.tokCalls + 1, acc.fwdCalls + 1))

\* analyze_batch(texts, batch_size)
analyze_batch(tok, mdl, dev, ts, bs) ==
    IF bs = 0 THEN Raised("ValueError", ZeroStep, 0, 0)
    ELSE BatchLoop(tok, mdl, dev, ts, bs, 0, Returned(<<>>, 0, 0))

Call(op, isStr, ts, bs, r) ==
    [op |-> op, isStr |-> isStr, texts |-> ts, bs |-> bs, r |-> r]

\* no call has ended that the caller has not dealt with yet
NoCall == Call("none", FALSE, <<>>, 0, Returned(<<>>, 0, 0))

LoadSteps == {"tokenizer", "model", "to", "eval", "none"}

\* load_model that drops the old model before fetching the new one
load_model_reset(failAt, fresh) ==
    /\ outcome = NoCall
    /\ loadCalled' = TRUE
    /\ tokenizer' = IF failAt = "tokenizer" THEN "None" ELSE "tokenizer"
    /\ model' = CASE failAt \in {"tokenizer", "model"} -> None
                  [] failAt = "to" -> fresh
                  [] failAt = "eval" -> [fresh EXCEPT !.moved = TRUE]
                  [] OTHER -> [fresh EXCEPT !.moved = TRUE, !.evalMode = TRUE]
    /\ loadReturned' = (loadReturned \/ failAt = "none")
    /\ outcome' = Call("load_model", FALSE, <<>>, 0,
                       IF failAt = "none" THEN Returned(<<>>, 0, 0)
                       ELSE Raised("Exception", <<failAt>>, 0, 0))
    /\ UNCHANGED <<device, cleanerVars, guess>>

\* load_model(): failAt is the step that raises ("none": the call returns),
\* fresh is the object from_pretrained hands back
load_model(failAt, fresh) ==
    /\ outcome = NoCall
    /\ loadCalled' = TRUE
    /\ tokenizer' = IF failAt = "tokenizer" THEN tokenizer ELSE "tokenizer"
    /\ model' = CASE failAt \in {"tokenizer", "model"} -> model
                  [] failAt = "to" -> fresh
                  [] failAt = "eval" -> [fresh EXCEPT !.moved = TRUE]
                  [] OTHER -> [fresh EXCEPT !.moved = TRUE, !.evalMode = TRUE]
    /\ loadReturned' = (loadReturned \/ failAt = "none")
    /\ outcome' = Call("load_model", FALSE, <<>>, 0,
                       IF failAt = "none" THEN Returned(<<>>, 0, 0)
                       ELSE Raised("Exception", <<failAt>>, 0, 0))
    /\ UNCHANGED <<device, cleanerVars, guess>>

LoadModel ==
    \E failAt \in LoadSteps, fresh \in FreshModels :
        /\ load_model(failAt, fresh)
        /\ UNCHANGED <<analyzerGlobal, response, cli>>

AnalyzeStr ==
    \E t \in Texts :
        /\ outcome = NoCall
        /\ outcome' = Call("analyze", TRUE, <<t>>, 0,
                           analyze(tokenizer, model, device, TRUE, <<t>>))
        /\ UNCHANGED <<device, tokenizer, model, loadCalled, loadReturned, cleanerVars, frontVars>>

AnalyzeList ==
    \E ts \in TextLists :
        /\ outcome = NoCall
        /\ outcome' = Call("analyze", FALSE, ts, 0,
                           analyze(tokenizer, model, device, FALSE, ts))
        /\ UNCHANGED <<device, tokenizer, model, loadCalled, loadReturned, cleanerVars, frontVars>>

AnalyzeBatch ==
    \E ts \in TextLists, bs \in BatchSizes :
        /\ outcome = NoCall
        /\ outcome' = Call("analyze_batch", FALSE, ts, bs,
                           analyze_batch(tokenizer, model, device, ts, bs))
        /\ UNCHANGED <<device, tokenizer, model, loadCalled, loadReturned, cleanerVars, frontVars>>

\* the caller takes the value, or handles the exception, of the call that
\* has ended and goes on to its next call
Proceed ==
    /\ outcome # NoCall
    /\ outcome' = NoCall
    /\ UNCHANGED <<device, tokenizer, model, loadCalled, loadReturned, cleanerVars, frontVars>>

NoText == <<>>

\* nothing has been asked of the language detection, the API or the CLI
NoGuess == [call |-> "none"]
NoResponse == [status_code |-> 0]
NoCli == [pc |-> "none"]

FrontIdle ==
    /\ guess = NoGuess
    /\ analyzerGlobal = "None"
    /\ response = NoResponse
    /\ cli = NoCli
NoOpts == [remove_urls |-> TRUE, remove_mentions |-> TRUE, remove_hashtags |-> FALSE,
           remove_emojis |-> FALSE, lowercase |-> FALSE, normalize_unicode |-> TRUE]

\* MultilingualSentimentAnalyzer.__init__
Init ==
    /\ device \in {"cpu", "cuda"}
    /\ tokenizer = "None"
    /\ model = None
    /\ loadCalled = FALSE
    /\ loadReturned = FALSE
    /\ outcome = NoCall
    /\ text = NoText
    /\ opts = NoOpts
    /\ cleaned = NoText
    /\ pc = "idle"
    /\ FrontIdle

Next == LoadModel \/ AnalyzeStr \/ AnalyzeList \/ AnalyzeBatch \/ Proceed

Spec == Init /\ [][Next]_vars

(***************************************************************************)
(* The cleaner on its own: one call of clean_text on an arbitrary input    *)
(***************************************************************************)
InitClean ==
    /\ device = "cpu"
    /\ tokenizer = "None"
    /\ model = None
    /\ loadCalled = FALSE
    /\ loadReturned = FALSE
    /\ outcome = NoCall
    /\ text \in CleanInputs \cup ScriptInputs \cup {Dirty}
    /\ opts \in CleaningOptions
    /\ cleaned = NoText
    /\ pc = "start"
    /\ FrontIdle

CleanText ==
    /\ pc = "start"
    /\ cleaned' = clean_text(text, opts)
    /\ pc' = "done"
    /\ UNCHANGED <<text, opts, analyzerVars, frontVars>>

NextClean == CleanText

SpecClean == InitClean /\ [][NextClean]_vars

(***************************************************************************)
(* The language detection on its own: one call on an arbitrary text        *)
(***************************************************************************)
InitLang ==
    /\ device = "cpu"
    /\ tokenizer = "None"
    /\ model = None
    /\ loadCalled = FALSE
    /\ loadReturned = FALSE
    /\ outcome = NoCall
    /\ text \in LangInputs
    /\ opts = NoOpts
    /\ cleaned = NoText
    /\ pc = "start"
    /\ FrontIdle

Detection(call, det, g) ==
    [call |-> call, detector |-> det, code |-> g.code, num |-> g.num, den |-> g.den]

SimpleDetect ==
    /\ pc = "start"
    /\ guess' = Detection("_simple_language_detect", {}, simple_language_detect(text))
    /\ pc' = "done"
    /\ UNCHANGED <<text, opts, cleaned, analyzerVars, analyzerGlobal, response, cli>>

DetectLanguage ==
    \E det \in Detectors :
        /\ pc = "start"
        /\ guess' = Detection("detect_language", {det}, detect_language(text, det))
        /\ pc' = "done"
        /\ UNCHANGED <<text, opts, cleaned, analyzerVars, analyzerGlobal, response, cli>>

NextLang == SimpleDetect \/ DetectLanguage

SpecLang == InitLang /\ [][NextLang]_vars

(***************************************************************************)
(* The HTTP API (src/src/api/main.py): the event loop runs startup_event   *)
(* and the two POST handlers one at a time                                 *)
(***************************************************************************)
NoAttribute(name) == <<"'NoneType' object has no attribute ", name>>

\* `except RuntimeError` in the place of `except Exception`
CaughtRuntimeOnly(exc) == exc = "RuntimeError"

\* `except Exception`: the classes the handlers catch
Caught(exc) ==
    exc \in {"Exception", "RuntimeError", "TypeError", "ValueError",
             "IndexError", "AttributeError"}

\* raise HTTPException(status_code=500, detail=str(e))
Http500(msg) == [status_code |-> 500, detail |-> msg]

\* the value the handler returns, sent with status 200
Http200(body) == [status_code |-> 200, body |-> body]

\* the exception leaves the handler
Escapes(exc) == [status_code |-> 0, escaped |-> exc]

\* analyzer.analyze(...) / analyzer.analyze_batch(...) on the global
ApiCall(op, ts, bs) ==
    IF analyzerGlobal = "None" THEN Raised("AttributeError", NoAttribute(op), 0, 0)
    ELSE IF op = "analyze" THEN analyze(tokenizer, model, device, TRUE, ts)
    ELSE analyze_batch(tokenizer, model, device, ts, bs)

\* try: ... return ...; except Exception as e: raise HTTPException(...)
Handle(r, body) ==
    IF r.status = "ok" THEN Http200(body)
    ELSE IF Caught(r.exc) THEN Http500(r.msg)
    ELSE Escapes(r.exc)

\* startup_event: construct the analyzer, then load_model
startup_event ==
    \E failAt \in LoadSteps, fresh \in FreshModels :
        /\ analyzerGlobal = "None"
        /\ response = NoResponse
        /\ analyzerGlobal' = "analyzer"
        /\ load_model(failAt, fresh)
        /\ UNCHANGED <<response, cli>>

\* POST /analyze
analyze_text ==
    \E t \in Texts :
        LET r == ApiCall("analyze", <<t>>, 0) IN
        /\ outcome = NoCall
        /\ outcome' = Call("analyze", TRUE, <<t>>, 0, r)
        /\ response' = Handle(r, IF r.status = "ok" THEN r.value[1] ELSE <<>>)
        /\ UNCHANGED <<device, tokenizer, model, loadCalled, loadReturned,
                       cleanerVars, guess, analyzerGlobal, cli>>

\* POST /analyze/batch
analyze_batch_endpoint ==
    \E ts \in TextLists, bs \in BatchSizes :
        LET r == ApiCall("analyze_batch", ts, bs) IN
        /\ outcome = NoCall
        /\ outcome' = Call("analyze_batch", FALSE, ts, bs, r)
        /\ response' = Handle(r, [results |-> r.value, count |-> Len(r.value)])
        /\ UNCHANGED <<device, tokenizer, model, loadCalled, loadReturned,
                       cleanerVars, guess, analyzerGlobal, cli>>

\* the event loop is done with the startup or with the request and takes
\* the next one
NextRequest ==
    /\ outcome # NoCall
    /\ outcome' = NoCall
    /\ response' = NoResponse
    /\ UNCHANGED <<device, tokenizer, model, loadCalled, loadReturned,
                   cleanerVars, guess, analyzerGlobal, cli>>

NextApi == startup_event \/ analyze_text \/ analyze_batch_endpoint \/ NextRequest

SpecApi == Init /\ [][NextApi]_vars

(***************************************************************************)
(* The CLI batch command (src/run.py, batch_command)                       *)
(***************************************************************************)
\* the lines a file can hold, and what line.strip() makes of each
Lines == {"I love this!\n", "  I hate this!\n", "\n", "  \n"}

LineStrip(line) ==
    CASE line = "I love this!\n" -> "I love this!"
      [] line = "  I hate this!\n" -> "I hate this!"
      [] OTHER -> ""

\* what is at the path args.file: nothing, or a readable file
Files ==
    {[exists |-> FALSE, lines |-> <<>>]}
    \cup {[exists |-> TRUE, lines |-> ls] :
            ls \in UNION {[1..n -> Lines] : n \in 0..MaxLines}}

LoadingMsg == "Loading model..."
FileNotFoundMsg == "Error: File not found"
ProcessingMsg == "Processing texts..."
SummaryMsg == "Summary"
Traceback == "Traceback (most recent call last)"

\* the process ends: sys.exit(status), or an exception nobody catches
Exit(c, status, msg) ==
    [c EXCEPT !.pc = "exited", !.exit_status = status, !.printed = @ \o <<msg>>]

\* [line.strip() for line in f if line.strip()]
StrippedLines(ls) ==
    SelectSeq([i \in 1..Len(ls) |-> LineStrip(ls[i])], LAMBDA l : l # "")

\* the read of the file that goes on with no text when the file is missing
read_file_no_exit(c) ==
    IF ~c.file.exists
    THEN [c EXCEPT !.reads = @ + 1, !.pc = "read", !.texts = <<>>,
                   !.printed = @ \o <<FileNotFoundMsg, ProcessingMsg>>]
    ELSE [c EXCEPT !.reads = @ + 1, !.pc = "read",
                   !.texts = StrippedLines(c.file.lines),
                   !.printed = @ \o <<ProcessingMsg>>]

\* try: open(args.file) ... except FileNotFoundError: print; sys.exit(1)
read_file(c) ==
    IF ~c.file.exists
    THEN Exit([c EXCEPT !.reads = @ + 1], 1, FileNotFoundMsg)
    ELSE [c EXCEPT !.reads = @ + 1, !.pc = "read",
                   !.texts = StrippedLines(c.file.lines),
                   !.printed = @ \o <<ProcessingMsg>>]

\* batch_command starts: args.file and args.batch_size are given
CliStart(file, bs) ==
    [pc |-> "start", file |-> file, batch_size |-> bs, texts |-> <<>>,
     results |-> <<>>, exit_status |-> -1, printed |-> <<>>,
     reads |-> 0, batchCalls |-> 0]

InitCli ==
    /\ device \in {"cpu", "cuda"}
    /\ tokenizer = "None"
    /\ model = None
    /\ loadCalled = FALSE
    /\ loadReturned = FALSE
    /\ outcome = NoCall
    /\ text = NoText
    /\ opts = NoOpts
    /\ cleaned = NoText
    /\ pc = "idle"
    /\ guess = NoGuess
    /\ analyzerGlobal = "None"
    /\ response = NoResponse
    /\ cli \in {CliStart(file, bs) : file \in Files, bs \in BatchSizes}

\* analyzer = MultilingualSentimentAnalyzer(); analyzer.load_model()
CliLoadModel ==
    \E failAt \in LoadSteps, fresh \in FreshModels :
        /\ cli.pc = "start"
        /\ load_model(failAt, fresh)
        /\ cli' = IF failAt = "none"
                  THEN [cli EXCEPT !.pc = "loaded", !.printed = @ \o <<LoadingMsg>>]
                  ELSE Exit([cli EXCEPT !.printed = @ \o <<LoadingMsg>>], 1, Traceback)
        /\ UNCHANGED <<analyzerGlobal, response>>

\* the file is read
CliReadFile ==
    /\ cli.pc = "loaded"
    /\ cli' = read_file(cli)
    /\ UNCHANGED <<analyzerVars, cleanerVars, guess, analyzerGlobal, response>>

\* results = analyzer.analyze_batch(texts, batch_size=args.batch_size)
CliAnalyzeBatch ==
    LET r == analyze_batch(tokenizer, model, device, cli.texts, cli.batch_size) IN
    /\ cli.pc = "read"
    /\ outcome' = Call("analyze_batch", FALSE, cli.texts, cli.batch_size, r)
    /\ cli' = IF r.status = "raise"
              THEN Exit([cli EXCEPT !.batchCalls = @ + 1], 1, Traceback)
              ELSE [cli EXCEPT !.batchCalls = @ + 1, !.pc = "analyzed",
                               !.results = r.value]
    /\ UNCHANGED <<device, tokenizer, model, loadCalled, loadReturned,
                   cleanerVars, guess, analyzerGlobal, response>>

\* the summary: percentage = (count / len(results)) * 100 for each sentiment
CliSummary ==
    /\ cli.pc = "analyzed"
    /\ cli' = IF Len(cli.results) = 0
              THEN Exit([cli EXCEPT !.printed = @ \o <<SummaryMsg>>], 1, Traceback)
              ELSE [cli EXCEPT !.pc = "exited", !.exit_status = 0,
                               !.printed = @ \o <<SummaryMsg>>]
    /\ UNCHANGED <<analyzerVars, cleanerVars, guess, analyzerGlobal, response>>

NextCli == CliLoadModel \/ CliReadFile \/ CliAnalyzeBatch \/ CliSummary

SpecCli == InitCli /\ [][NextCli]_vars

(***************************************************************************)
(* Properties of the analyzer                                              *)
(***************************************************************************)
Mentions(msg, phrase) == \E i \in 1..Len(msg) : msg[i] = phrase

IsModelNotLoaded(r) ==
    r.status = "raise" /\ r.exc = "RuntimeError" /\ Mentions(r.msg, "Model not loaded")

\* the guard of analyze lets the call through
GuardPasses == model # None

\* the model in place is one on which a load_model call ran to its end
FullyLoaded == model # None /\ model.moved /\ model.evalMode

\* the model gives every text its own row of logits
PerTextModel == model # None /\ model.kind = "pretrained"

\* C1: on an analyzer on which load_model was never called, analyze raises
\* RuntimeError "Model not loaded" for a str and for a list (the empty list
\* too), calls neither the tokenizer nor the model, and the analyzer is still
\* unloaded afterwards.
C1_AnalyzeBeforeLoad ==
    (outcome.op = "analyze" /\ ~loadCalled) =>
        /\ IsModelNotLoaded(outcome.r)
        /\ outcome.r.tokCalls = 0 /\ outcome.r.fwdCalls = 0
        /\ model = None /\ tokenizer = "None"

C1_Witness ==
    /\ outcome.op = "analyze" /\ ~loadCalled
    /\ ~outcome.isStr /\ outcome.texts = <<>>
    /\ IsModelNotLoaded(outcome.r)

\* C2: analyze_batch called on an analyzer on which load_model was never
\* called raises the "Model not loaded" error for every list of texts and
\* returns no result list.
C2_BatchBeforeLoad ==
    (outcome.op = "analyze_batch" /\ ~loadCalled) => IsModelNotLoaded(outcome.r)

\* C3: once a load_model call has returned, the guard of analyze passes for
\* ever: whatever is called next (load_model again, failing or not, analyze,
\* analyze_batch), self.model is set and analyze does not raise
\* "Model not loaded".
C3_LoadedIsOneWay ==
    loadReturned =>
        /\ GuardPasses
        /\ outcome.op = "analyze" => ~IsModelNotLoaded(outcome.r)

C3_Witness ==
    /\ loadReturned
    /\ outcome.op = "load_model" /\ outcome.r.status = "raise"
    /\ outcome.r.msg = <<"model">>
    /\ GuardPasses

InOrder(value, ts) ==
    /\ Len(value) = Len(ts)
    /\ \A i \in 1..Len(ts) : value[i].text = ts[i]

\* C4: on a fully loaded analyzer whose model returns one row per text,
\* analyze_batch(texts, k) with k >= 1, and analyze(texts) for a list, return
\* len(texts) results with results[i].text = texts[i].
C4_OneResultPerTextInOrder ==
    (/\ FullyLoaded /\ PerTextModel
     /\ \/ outcome.op = "analyze_batch" /\ outcome.bs >= 1
        \/ outcome.op = "analyze" /\ ~outcome.isStr) =>
        /\ outcome.r.status = "ok"
        /\ InOrder(outcome.r.value, outcome.texts)

C4_Witness ==
    /\ FullyLoaded /\ PerTextModel
    /\ outcome.op = "analyze_batch" /\ outcome.bs = 2
    /\ Len(outcome.texts) = 3 /\ outcome.texts[1] # outcome.texts[3]
    /\ InOrder(outcome.r.value, outcome.texts)

\* the number of chunks of at most k texts a list of n texts is cut into
Chunks(n, k) == (n + k - 1) \div k

\* C5: with a model that gives each text its own logits, analyze_batch(texts,
\* k), k >= 1, yields the (sentiment, confidence) pairs that analyze yields
\* on each text taken alone, in one forward pass per chunk of at most k texts.
C5_BatchEqualsSingles ==
    (/\ FullyLoaded /\ PerTextModel
     /\ outcome.op = "analyze_batch" /\ outcome.bs >= 1) =>
        /\ outcome.r.status = "ok"
        /\ Len(outcome.r.value) = Len(outcome.texts)
        /\ \A i \in 1..Len(outcome.texts) :
              LET one == analyze(tokenizer, model, device, TRUE, <<outcome.texts[i]>>)
              IN  /\ one.status = "ok"
                  /\ outcome.r.value[i].sentiment = one.value[1].sentiment
                  /\ outcome.r.value[i].confidence = one.value[1].confidence
        /\ outcome.r.fwdCalls = Chunks(Len(outcome.texts), outcome.bs)

C5_Witness ==
    /\ FullyLoaded /\ PerTextModel
    /\ outcome.op = "analyze_batch" /\ outcome.bs = 2 /\ Len(outcome.texts) = 3
    /\ outcome.r.status = "ok" /\ outcome.r.fwdCalls = 2
    /\ outcome.r.value[1].sentiment # outcome.r.value[2].sentiment

AnalysisReturned ==
    outcome.op \in {"analyze", "analyze_batch"} /\ outcome.r.status = "ok"

ScoreOf(res, label) ==
    LET i == CHOOSE k \in 1..Len(res.scores) : res.scores[k][1] = label
    IN  res.scores[i][2]

\* C6: every result returned by analyze or analyze_batch has the scores
\* keyed by negative, neutral, positive in that order; its sentiment is one
\* of them and holds a maximal score; its confidence is that maximal score.
C6_ShapeOfResult ==
    AnalysisReturned =>
        \A i \in 1..Len(outcome.r.value) :
            LET res == outcome.r.value[i] IN
            /\ [k \in 1..Len(res.scores) |-> res.scores[k][1]] = labels
            /\ res.sentiment \in {labels[k] : k \in 1..Len(labels)}
            /\ \A k \in 1..Len(res.scores) :
                  res.scores[k][2] <= ScoreOf(res, res.sentiment)
            /\ res.confidence = ScoreOf(res, res.sentiment)

C6_Witness ==
    /\ AnalysisReturned /\ outcome.op = "analyze_batch"
    /\ Len(outcome.r.value) = 2
    /\ outcome.r.value[1].sentiment = "positive"
    /\ outcome.r.value[2].sentiment = "negative"

\* 1e-5 in units of 1/Scale
Tolerance == Scale \div 100000

\* C7: the scores of every returned result sum to 1.0 within 1e-5 and the
\* confidence lies in [0, 1].
C7_ScoresSumToOne ==
    AnalysisReturned =>
        \A i \in 1..Len(outcome.r.value) :
            LET res == outcome.r.value[i]
                total == SumSeq([k \in 1..Len(res.scores) |-> res.scores[k][2]])
            IN  /\ Scale - Tolerance <= total /\ total <= Scale + Tolerance
                /\ 0 <= res.confidence /\ res.confidence <= Scale

\* a returned result whose rounded scores do not sum to exactly 1.0
C7_Witness ==
    /\ AnalysisReturned /\ Len(outcome.r.value) >= 1
    /\ LET res == outcome.r.value[1]
           total == SumSeq([k \in 1..Len(res.scores) |-> res.scores[k][2]])
       IN  total # Scale /\ Scale - Tolerance <= total /\ total <= Scale + Tolerance

\* C17: as long as no load_model call has returned, the analyzer is unloaded:
\* self.model is still None after a load_model call that raised at any of its
\* steps, and an analyze call that follows raises "Model not loaded".
C17_LoadIsAllOrNothing ==
    ~loadReturned =>
        /\ model = None
        /\ outcome.op = "analyze" => IsModelNotLoaded(outcome.r)

\* C18: when analyze_batch returns on a loaded analyzer, whatever the list
\* of texts and the batch_size (positive or negative), the list it returns
\* has len(texts) entries.
C18_BatchReturnsOnePerText ==
    (/\ loadReturned /\ FullyLoaded /\ PerTextModel
     /\ outcome.op = "analyze_batch" /\ outcome.r.status = "ok") =>
        Len(outcome.r.value) = Len(outcome.texts)

(***************************************************************************)
(* Properties of the HTTP API                                              *)
(***************************************************************************)
\* C15: when the call a POST handler makes raises (the global analyzer being
\* None and the analyzer not being loaded included), the response is a 500
\* whose detail is the message of the error: no 200 body, and the exception
\* does not leave the handler.
C15_ErrorsBecome500 ==
    (outcome.op \in {"analyze", "analyze_batch"} /\ outcome.r.status = "raise") =>
        response = Http500(outcome.r.msg)

C15_Witness ==
    /\ analyzerGlobal = "None"
    /\ outcome.op = "analyze_batch" /\ outcome.r.exc = "AttributeError"
    /\ response = Http500(NoAttribute("analyze_batch"))

(***************************************************************************)
(* Properties of the CLI                                                   *)
(***************************************************************************)
Printed(msg) == \E i \in 1..Len(cli.printed) : cli.printed[i] = msg

\* C16: the batch command given the path of a file that does not exist
\* opens the file at most once, never calls analyze_batch, never gets past
\* the read, and when it has ended its exit status is 1 and an error was
\* printed: the file-not-found message once the model has loaded.
C16_MissingFileExits ==
    ~cli.file.exists =>
        /\ cli.reads <= 1
        /\ cli.batchCalls = 0
        /\ cli.pc \in {"start", "loaded", "exited"}
        /\ cli.pc = "exited" =>
              /\ cli.exit_status = 1
              /\ Printed(FileNotFoundMsg) \/ Printed(Traceback)
              /\ loadReturned =>
                    /\ cli.reads = 1
                    /\ cli.printed = <<LoadingMsg, FileNotFoundMsg>>

C16_Witness ==
    /\ ~cli.file.exists
    /\ cli.pc = "exited" /\ cli.exit_status = 1
    /\ loadReturned
    /\ cli.reads = 1 /\ cli.batchCalls = 0
    /\ Printed(FileNotFoundMsg)

\* C21: once the model is loaded, the batch command given an existing
\* readable file (an empty one, or one of blank lines only, included) and a
\* positive batch size ends normally: the summary is printed, the exit status
\* is 0 and no exception goes uncaught.
C21_BatchCommandEndsNormally ==
    (/\ cli.file.exists /\ cli.batch_size > 0
     /\ loadReturned /\ PerTextModel
     /\ cli.pc = "exited") =>
        /\ cli.exit_status = 0
        /\ Printed(SummaryMsg)
        /\ ~Printed(Traceback)

(***************************************************************************)
(* Properties of the cleaner                                               *)
(***************************************************************************)
\* C8 as stated: for every text and every combination of the options the
\* output of clean_text is no longer than its input.
C8_NeverLonger == pc = "done" => Len(cleaned) <= Len(text)

\* C8 amended: with normalize_unicode and lowercase both off, the output of
\* clean_text is no longer than its input.
C8_NeverLongerWithoutRewriting ==
    (pc = "done" /\ ~opts.normalize_unicode /\ ~opts.lowercase) =>
        Len(cleaned) <= Len(text)

C8_Witness ==
    /\ pc = "done" /\ ~opts.normalize_unicode /\ ~opts.lowercase
    /\ opts.remove_mentions /\ \E i \in 1..Len(text) : SigilMatchEnd(text, i, 64) > 0
    /\ cleaned # <<>> /\ Len(cleaned) < Len(text)

\* C9: the output of clean_text neither starts nor ends with whitespace and
\* has no two whitespace characters in a row; the whitespace left in it is
\* single spaces.
C9_WhitespaceCollapsed ==
    pc = "done" =>
        /\ cleaned # <<>> => ~IsSpace(cleaned[1]) /\ ~IsSpace(cleaned[Len(cleaned)])
        /\ \A i \in 1..(Len(cleaned) - 1) : ~(IsSpace(cleaned[i]) /\ IsSpace(cleaned[i + 1]))
        /\ \A i \in 1..Len(cleaned) : IsSpace(cleaned[i]) => cleaned[i] = 32

\* a run of two whitespace characters between two words became one space
C9_Witness ==
    /\ pc = "done"
    /\ \E i \in 2..(Len(text) - 2) :
          /\ ~IsSpace(text[i - 1]) /\ IsSpace(text[i])
          /\ IsSpace(text[i + 1]) /\ ~IsSpace(text[i + 2])
    /\ \E i \in 1..Len(cleaned) : cleaned[i] = 32
    /\ Len(cleaned) = Len(text) - 1

HasUrl(s) == \E i \in 1..Len(s) : UrlMatchEnd(s, i) > 0
HasMention(s) == \E i \in 1..Len(s) : SigilMatchEnd(s, i, 64) > 0

\* C10: with remove_urls and remove_mentions on, whatever the other options
\* are, the output of clean_text holds no http(s):// URL and no @word mention.
C10_NoUrlNoMention ==
    (pc = "done" /\ opts.remove_urls /\ opts.remove_mentions) =>
        ~HasUrl(cleaned) /\ ~HasMention(cleaned)

\* C11: cleaning "  Check out https://t.co/abc @user #test " U+1F60A "!!!  "
\* with remove_urls, remove_mentions, remove_hashtags, remove_emojis and
\* lowercase all on returns exactly "check out !!!".
C11_CleaningScenario ==
    (/\ pc = "done" /\ text = Dirty
     /\ opts.remove_urls /\ opts.remove_mentions /\ opts.remove_hashtags
     /\ opts.remove_emojis /\ opts.lowercase) =>
        cleaned = CheckOut

C11_Witness ==
    /\ pc = "done" /\ text = Dirty
    /\ opts.remove_urls /\ opts.remove_mentions /\ opts.remove_hashtags
    /\ opts.remove_emojis /\ opts.lowercase /\ opts.normalize_unicode
    /\ cleaned = CheckOut

\* the text as the hashtag step of clean_text finds it
BeforeHashtags(t, o) ==
    LET t1 == IF o.normalize_unicode THEN Normalize(t) ELSE t
        t2 == IF o.remove_urls THEN UrlSub(t1) ELSE t1
    IN  IF o.remove_mentions THEN MentionSub(t2) ELSE t2

\* what the steps after the hashtag step make of its result
AfterHashtags(t, o) ==
    LET t5 == IF o.remove_emojis THEN EmojiSub(t) ELSE t
        t6 == IF o.lowercase THEN LowerText(t5) ELSE t5
    IN  CollapseWhitespace(t6)

\* s[i] is a '#' with a word character right after it
StartsHashtag(s, i) == s[i] = 35 /\ i < Len(s) /\ IsWord(s[i + 1])

\* s[i] belongs to the word that follows a '#'
InHashtagWord(s, i) ==
    /\ IsWord(s[i])
    /\ \E j \in 1..(i - 1) : s[j] = 35 /\ \A k \in (j + 1)..i : IsWord(s[k])

RECURSIVE Keep(_, _, _)
Keep(s, i, dropped) ==
    IF i > Len(s) THEN <<>>
    ELSE (IF i \in dropped THEN <<>> ELSE <<s[i]>>) \o Keep(s, i + 1, dropped)

\* s without the '#' of each #word token and, when remove is on, without
\* the word of each #word token either
WithoutHashtags(s, remove) ==
    Keep(s, 1, {i \in 1..Len(s) :
                   StartsHashtag(s, i) \/ (remove /\ InHashtagWord(s, i))})

\* C12: with remove_hashtags on, the hashtag step deletes every #word token
\* with its word; with remove_hashtags off it deletes only the '#' of each
\* #word token and keeps the word in place.
C12_HashtagHandling ==
    (pc = "done" /\ text # <<>>) =>
        cleaned = AfterHashtags(
                     WithoutHashtags(BeforeHashtags(text, opts), opts.remove_hashtags),
                     opts)

\* a word after a '#' was deleted with it while another word was kept
C12_Witness ==
    /\ pc = "done" /\ opts.remove_hashtags /\ ~opts.remove_emojis
    /\ text = <<120, 35, 120>>
    /\ cleaned = <<120>>

IsLetter(c) ==
    \/ InRange(c, 65, 90) \/ InRange(c, 97, 122)
    \/ InRange(c, \h3041, \h3096) \/ InRange(c, \h30A1, \h30FA)
    \/ InRange(c, \h4E00, \h9FFF) \/ InRange(c, \hAC00, \hD7A3)

Letters(s) == SelectSeq(s, IsLetter)

HasHashtag(s) == \E i \in 1..Len(s) : SigilMatchEnd(s, i, 35) > 0

\* C20: clean_text with remove_emojis on, lowercase and normalize_unicode
\* off, on a text without URL, mention or hashtag, removes only emoji: the
\* letters of the input, whatever their script, are all in the output, in
\* their order.
C20_EmojiRemovalKeepsLetters ==
    (/\ pc = "done" /\ opts.remove_emojis /\ ~opts.lowercase
     /\ ~opts.normalize_unicode
     /\ ~HasUrl(text) /\ ~HasMention(text) /\ ~HasHashtag(text)) =>
        Letters(cleaned) = Letters(text)

(***************************************************************************)
(* Properties of the language detection                                    *)
(***************************************************************************)
HeuristicDone == pc = "done" /\ guess.call = "_simple_language_detect"

AllChars(s, lo, hi) == s # <<>> /\ \A i \in 1..Len(s) : InRange(s[i], lo, hi)

NoCountedChar(s) ==
    \A i \in 1..Len(s) :
        ~(\/ InRange(s[i], 65, 90) \/ InRange(s[i], 97, 122)
          \/ InRange(s[i], \h3040, \h30FF) \/ InRange(s[i], \h4E00, \h9FFF)
          \/ InRange(s[i], \hAC00, \hD7AF))

\* C13: the heuristic answers "en" for a non-empty text of Latin letters
\* only, "ko" for a non-empty text of Hangul syllables only, and
\* ("unknown", 0.0) for the empty text and for any text without a character
\* of the four counted ranges.
C13_HeuristicOnPureTexts ==
    HeuristicDone =>
        /\ (text # <<>> /\ \A i \in 1..Len(text) :
                InRange(text[i], 65, 90) \/ InRange(text[i], 97, 122))
              => guess.code = "en"
        /\ AllChars(text, \hAC00, \hD7A3) => guess.code = "ko"
        /\ NoCountedChar(text) => (guess.code = "unknown" /\ guess.num = 0)

C13_Witness ==
    /\ HeuristicDone
    /\ text = <<90, 97>>
    /\ guess.code = "en" /\ guess.num = guess.den

\* C14 as stated: detect_language answers what _simple_language_detect
\* answers both when the external detector cannot be imported and when it
\* raises.
C14_FallbackOnMissingOrRaise ==
    (/\ pc = "done" /\ guess.call = "detect_language"
     /\ \E det \in guess.detector : det.avail \in {"missing", "raises"}) =>
        LET g == simple_language_detect(text)
        IN  guess.code = g.code /\ guess.num = g.num /\ guess.den = g.den

\* C14 amended: detect_language answers what _simple_language_detect answers
\* when the external detector cannot be imported; when the detector raises
\* it answers ("unknown", 0.0).
C14_FallbackOnMissingOnly ==
    (pc = "done" /\ guess.call = "detect_language") =>
        /\ (\E det \in guess.detector : det.avail = "missing") =>
              LET g == simple_language_detect(text)
              IN  guess.code = g.code /\ guess.num = g.num /\ guess.den = g.den
        /\ (\E det \in guess.detector : det.avail = "raises") =>
              (guess.code = "unknown" /\ guess.num = 0)

C14_Witness ==
    /\ pc = "done" /\ guess.call = "detect_language"
    /\ \E det \in guess.detector : det.avail = "missing"
    /\ guess.code = "ko" /\ guess.num = 2 /\ guess.den = 3

\* C19: the heuristic never answers "zh": its code is one of unknown, ja,
\* ko, en, since every ideograph counts as Japanese as well as Chinese and
\* the Chinese count never exceeds the Japanese count.
C19_NeverChinese ==
    HeuristicDone =>
        /\ guess.code \in {"unknown", "ja", "ko", "en"}
        /\ Len(SelectSeq(text, IsChineseChar)) <= Len(SelectSeq(text, IsJapaneseChar))

\* a text of ideographs only is taken for Japanese
C19_Witness ==
    /\ HeuristicDone
    /\ AllChars(text, \h4E00, \h9FFF) /\ Len(text) = 2
    /\ guess.code = "ja"

====
